---- MODULE Spec2Model ----
(***************************************************************************)
(* Plan assembly of MatchPlanner (src/graph/planner/match/MatchPlanner.cpp) *)
(* transform folds the query parts of a MATCH sentence into one SubPlan;    *)
(* genQueryPartPlan folds the matching clauses of one part, appends the     *)
(* boundary clause and anchors the plan; connectMatchPlan joins one match   *)
(* fragment to the accumulated plan.                                        *)
(*                                                                          *)
(* The plan graph is an arena: nodes[i] is the plan node with id i, its     *)
(* dependencies are ids, and 0 stands for nullptr.  The clause planners,    *)
(* SegmentsConnector and the PlanNode classes live outside this file and    *)
(* are modelled from their described contracts.                             *)
(***************************************************************************)
EXTENDS Integers, Sequences, FiniteSets, TLC

\* ---------------------------------------------------------------- bounds
MaxNodes == 10      \* capacity of the node arena
MaxParts == 2       \* query parts of one sentence
MaxAliases == 2     \* aliases one matching clause generates

NULL == 0

Names == {"x", "e"}
AliasType == {"kNode", "kEdge", "kEdgeList"}
NoAlias == "none"

\* ------------------------------------------------------------- data model
\* aliasesGenerated in the iteration order of the container
AliasTables ==
  { s \in UNION { [1..n -> [name : Names, type : AliasType]] : n \in 0..MaxAliases } :
      \A i, j \in 1..Len(s) : i # j => s[i].name # s[j].name }

NoWhere == [present |-> FALSE, refs |-> {}]
\* the aliases a filter mentions (its kVarProperty and kLabel expressions)
FilterRefs == {{"x"}, {"x", "e"}}
WhereCtxs == {NoWhere} \cup { [present |-> TRUE, refs |-> r] : r \in FilterRefs }

MatchCtxs == [aliasesGenerated : AliasTables, isOptional : BOOLEAN, where : WhereCtxs]

BoundaryKinds == {"kUnwind", "kWith", "kReturn", "kOrderBy"}
MatchTailKinds == {"Argument", "ScanVertices"}

EmptyAliases == [n \in Names |-> NoAlias]

GenNames(ctx) == { ctx.aliasesGenerated[i].name : i \in 1..Len(ctx.aliasesGenerated) }

\* aliases visible to the next clause: earlier bindings plus this clause's
MergeAliases(av, gen) ==
  [n \in Names |->
     IF av[n] # NoAlias THEN av[n]
     ELSE IF \E i \in 1..Len(gen) : gen[i].name = n
          THEN (CHOOSE a \in {gen[i] : i \in 1..Len(gen)} : a.name = n).type
          ELSE NoAlias]

\* ------------------------------------------------------------- plan nodes
PlanNode(k, d, iv, cols, hk) ==
  [kind |-> k, deps |-> d, inputVar |-> iv, colNames |-> cols, keys |-> hk]

outputVar(id) == id

isSingleInput(k) ==
  k \notin {"Start", "BiInnerJoin", "BiLeftJoin", "BiCartesianProduct"}

setInputVar(ns, id, v) == [ns EXCEPT ![id].inputVar = v]

setDep(ns, id, idx, d) == [ns EXCEPT ![id].deps[idx] = d]

EmptyPlan == [root |-> NULL, tail |-> NULL]

\* a sub-planner's answer: a status, the arena and the fragment it built
Fragment(st, ns, r, t) == [status |-> st, nodes |-> ns, root |-> r, tail |-> t]

\* ------------------------------------------------------- clause planners
\* MatchClausePlanner: a fragment root -> tail; the tail awaits its input
MatchClausePlanner(ns, cols, ok, tailKind) ==
  IF ~ok THEN Fragment("subplanner-error", ns, NULL, NULL)
  ELSE LET t == Len(ns) + 1
           r == Len(ns) + 2
       IN Fragment("ok",
                   ns \o << PlanNode(tailKind, <<NULL>>, NULL, {}, {}),
                            PlanNode("AppendVertices", <<t>>, outputVar(t), cols, {}) >>,
                   r, t)

\* WhereClausePlanner: one Filter node whose columns are inputColNames
WhereClausePlanner(ns, inputColNames, ok) ==
  IF ~ok THEN Fragment("subplanner-error", ns, NULL, NULL)
  ELSE Fragment("ok", Append(ns, PlanNode("Filter", <<NULL>>, NULL, inputColNames, {})),
                Len(ns) + 1, Len(ns) + 1)

UnwindClausePlanner(ns, inputColNames, ok) ==
  IF ~ok THEN Fragment("subplanner-error", ns, NULL, NULL)
  ELSE Fragment("ok", Append(ns, PlanNode("Unwind", <<NULL>>, NULL, inputColNames, {})),
                Len(ns) + 1, Len(ns) + 1)

\* WithClausePlanner: Limit -> Project, the Project awaits its input
WithClausePlanner(ns, inputColNames, ok) ==
  IF ~ok THEN Fragment("subplanner-error", ns, NULL, NULL)
  ELSE LET t == Len(ns) + 1
           r == Len(ns) + 2
       IN Fragment("ok",
                   ns \o << PlanNode("Project", <<NULL>>, NULL, inputColNames, {}),
                            PlanNode("Limit", <<t>>, outputVar(t), inputColNames, {}) >>,
                   r, t)

ReturnClausePlanner(ns, inputColNames, ok) ==
  IF ~ok THEN Fragment("subplanner-error", ns, NULL, NULL)
  ELSE Fragment("ok", Append(ns, PlanNode("Project", <<NULL>>, NULL, inputColNames, {})),
                Len(ns) + 1, Len(ns) + 1)

genPlan(ns, kind, cols, ok, tailKind) ==
  CASE kind = "kMatch"  -> MatchClausePlanner(ns, cols, ok, tailKind)
    [] kind = "kUnwind" -> UnwindClausePlanner(ns, cols, ok)
    [] kind = "kWith"   -> WithClausePlanner(ns, cols, ok)
    [] kind = "kReturn" -> ReturnClausePlanner(ns, cols, ok)
    [] OTHER            -> Fragment("unsupported-clause", ns, NULL, NULL)

\* ----------------------------------------------------- SegmentsConnector
BiJoin(kind, ns, left, right, hk) ==
  Fragment("ok",
           Append(ns, PlanNode(kind, <<left.root, right.root>>, NULL,
                               ns[left.root].colNames \cup ns[right.root].colNames, hk)),
           Len(ns) + 1, left.tail)

innerJoin(ns, left, right, intersectedAliases) ==
  BiJoin("BiInnerJoin", ns, left, right, intersectedAliases)

leftJoin(ns, left, right, intersectedAliases) ==
  BiJoin("BiLeftJoin", ns, left, right, intersectedAliases)

\* upper's tail takes lower's root as its input; the tail of the result is
\* lower's tail when keepLowerTail, upper's tail otherwise
addInput(ns, upper, lower, keepLowerTail) ==
  Fragment("ok",
           setInputVar(setDep(ns, upper.tail, 1, lower.root), upper.tail, outputVar(lower.root)),
           upper.root,
           IF keepLowerTail THEN lower.tail ELSE upper.tail)

\* the product with its two inputs exchanged
BiCartesianProductSwapped(ns, left, right) ==
  Append(ns, PlanNode("BiCartesianProduct", <<right, left>>, NULL,
                      ns[left].colNames \cup ns[right].colNames, {}))

BiCartesianProduct(ns, left, right) ==
  Append(ns, PlanNode("BiCartesianProduct", <<left, right>>, NULL,
                      ns[left].colNames \cup ns[right].colNames, {}))

\* --------------------------------------------------------- connectMatchPlan
\* the loop over aliasesGenerated, from position i on
\* the loop with the insert outside the test of aliasesAvailable
RECURSIVE ScanAliasesInsertAll(_, _, _, _)
ScanAliasesInsertAll(gen, av, i, acc) ==
  IF i > Len(gen) THEN [status |-> "ok", aliases |-> acc]
  ELSE LET alias == gen[i]
       IN IF av[alias.name] # NoAlias /\ av[alias.name] # alias.type
          THEN [status |-> "binding-type-conflict", aliases |-> acc]
          ELSE IF av[alias.name] # NoAlias /\ alias.type = "kEdgeList"
               THEN [status |-> "invalid-join-key", aliases |-> acc]
               ELSE ScanAliasesInsertAll(gen, av, i + 1, acc \cup {alias.name})

\* the loop without the comparison of the two types
RECURSIVE ScanAliasesNoTypeCheck(_, _, _, _)
ScanAliasesNoTypeCheck(gen, av, i, acc) ==
  IF i > Len(gen) THEN [status |-> "ok", aliases |-> acc]
  ELSE LET alias == gen[i]
       IN IF av[alias.name] # NoAlias
          THEN IF alias.type = "kEdgeList"
               THEN [status |-> "invalid-join-key", aliases |-> acc]
               ELSE ScanAliasesNoTypeCheck(gen, av, i + 1, acc \cup {alias.name})
          ELSE ScanAliasesNoTypeCheck(gen, av, i + 1, acc)

\* the loop without the test for kEdgeList
RECURSIVE ScanAliasesNoEdgeListCheck(_, _, _, _)
ScanAliasesNoEdgeListCheck(gen, av, i, acc) ==
  IF i > Len(gen) THEN [status |-> "ok", aliases |-> acc]
  ELSE LET alias == gen[i]
       IN IF av[alias.name] # NoAlias
          THEN IF av[alias.name] # alias.type
               THEN [status |-> "binding-type-conflict", aliases |-> acc]
               ELSE ScanAliasesNoEdgeListCheck(gen, av, i + 1, acc \cup {alias.name})
          ELSE ScanAliasesNoEdgeListCheck(gen, av, i + 1, acc)

RECURSIVE ScanAliases(_, _, _, _)
ScanAliases(gen, av, i, acc) ==
  IF i > Len(gen) THEN [status |-> "ok", aliases |-> acc]
  ELSE LET alias == gen[i]
       IN IF av[alias.name] # NoAlias
          THEN IF av[alias.name] # alias.type
               THEN [status |-> "binding-type-conflict", aliases |-> acc]
               ELSE IF alias.type = "kEdgeList"
                    THEN [status |-> "invalid-join-key", aliases |-> acc]
                    ELSE ScanAliases(gen, av, i + 1, acc \cup {alias.name})
          ELSE ScanAliases(gen, av, i + 1, acc)

\* what a step hands back: the status, the arena, queryPlan, the match fragment
\* it planned, and how the WHERE planner was used
Outcome(st, ns, qp, frag, wc, wcols) ==
  [status |-> st, nodes |-> ns, root |-> qp.root, tail |-> qp.tail,
   frag |-> frag, whereCalls |-> wc, whereCols |-> wcols]

PlanOf(f) == [root |-> f.root, tail |-> f.tail]

\* queryPlan = the join j
JoinedPlan(j, frag, wc, wcols) == Outcome("ok", j.nodes, PlanOf(j), frag, wc, wcols)

\* the rebinding without the test for an Argument node
RebindAnyTail(ns, t, r) == setInputVar(ns, t, outputVar(r))

\* the Argument tail of the fragment reads the output of the other side
RebindArgument(ns, t, r) ==
  IF ns[t].kind = "Argument" THEN setInputVar(ns, t, outputVar(r)) ELSE ns

\* leftJoin of queryPlan with the filtered fragment f
LeftJoinFiltered(f, qp, aliases) == leftJoin(f.nodes, qp, PlanOf(f), aliases)

\* the optional branch leaving the match fragment in queryPlan when the WHERE planner fails
FilteredLeftJoinKeepsFragment(w, cols, qp, frag, aliases) ==
  IF w.status # "ok" THEN Outcome(w.status, w.nodes, frag, frag, 1, cols)
  ELSE JoinedPlan(LeftJoinFiltered(addInput(w.nodes, PlanOf(w), frag, TRUE), qp, aliases),
                  frag, 1, cols)

\* the WHERE plan w goes over the match fragment, then the leftJoin
FilteredLeftJoin(w, cols, qp, frag, aliases) ==
  IF w.status # "ok" THEN Outcome(w.status, w.nodes, qp, frag, 1, cols)
  ELSE JoinedPlan(LeftJoinFiltered(addInput(w.nodes, PlanOf(w), frag, TRUE), qp, aliases),
                  frag, 1, cols)

\* the optional branch with the leftJoin built first and the filter over it
OptionalJoinFilterAbove(ns, qp, ctx, frag, aliases, wOk) ==
  IF ctx.where.present
  THEN IF ~(\A a \in ctx.where.refs : a \in GenNames(ctx))
       THEN Outcome("unsupported-optional-filter-scope", ns, qp, frag, 0, {})
       ELSE LET j == leftJoin(ns, qp, frag, aliases)
                cols == j.nodes[j.root].colNames
                w == WhereClausePlanner(j.nodes, cols, wOk)
            IN IF w.status # "ok" THEN Outcome(w.status, ns, qp, frag, 1, cols)
               ELSE JoinedPlan(addInput(w.nodes, PlanOf(w), PlanOf(j), TRUE), frag, 1, cols)
  ELSE JoinedPlan(leftJoin(ns, qp, frag, aliases), frag, 0, {})

\* the optional branch: validate and splice the WHERE, then leftJoin
OptionalJoin(ns, qp, ctx, frag, aliases, wOk) ==
  IF ctx.where.present
  THEN IF ~(\A a \in ctx.where.refs : a \in GenNames(ctx))
       THEN Outcome("unsupported-optional-filter-scope", ns, qp, frag, 0, {})
       ELSE FilteredLeftJoin(WhereClausePlanner(ns, ns[frag.root].colNames, wOk),
                             ns[frag.root].colNames, qp, frag, aliases)
  ELSE JoinedPlan(leftJoin(ns, qp, frag, aliases), frag, 0, {})

\* queryPlan.root = the product, the last node of n2
ProductPlan(n2, qp, frag) ==
  Outcome("ok", n2, [root |-> Len(n2), tail |-> qp.tail], frag, 0, {})

\* the join chosen by what the clause generates, not by what it shares
JoinFragmentsOnGenerated(sc, ns, qp, ctx, frag, wOk) ==
  IF sc.status # "ok" THEN Outcome(sc.status, ns, qp, frag, 0, {})
  ELSE IF ctx.aliasesGenerated # <<>>
  THEN IF ctx.isOptional
       THEN OptionalJoin(RebindArgument(ns, frag.tail, qp.root), qp, ctx, frag, sc.aliases, wOk)
       ELSE JoinedPlan(innerJoin(RebindArgument(ns, frag.tail, qp.root), qp, frag, sc.aliases),
                       frag, 0, {})
  ELSE ProductPlan(BiCartesianProduct(ns, qp.root, frag.root), qp, frag)

\* the fragment frag meets a non-empty queryPlan; sc is the outcome of the alias loop
JoinFragments(sc, ns, qp, ctx, frag, wOk) ==
  IF sc.status # "ok" THEN Outcome(sc.status, ns, qp, frag, 0, {})
  ELSE IF sc.aliases # {}
  THEN IF ctx.isOptional
       THEN OptionalJoin(RebindArgument(ns, frag.tail, qp.root), qp, ctx, frag, sc.aliases, wOk)
       ELSE JoinedPlan(innerJoin(RebindArgument(ns, frag.tail, qp.root), qp, frag, sc.aliases),
                       frag, 0, {})
  ELSE ProductPlan(BiCartesianProduct(ns, qp.root, frag.root), qp, frag)

\* connectMatchPlan once genPlan has answered m
ConnectFragment(m, qp, ctx, av, wOk) ==
  IF m.status # "ok" THEN Outcome(m.status, m.nodes, qp, EmptyPlan, 0, {})
  ELSE IF qp.root = NULL THEN Outcome("ok", m.nodes, PlanOf(m), PlanOf(m), 0, {})
  ELSE JoinFragments(ScanAliases(ctx.aliasesGenerated, av, 1, {}),
                     m.nodes, qp, ctx, PlanOf(m), wOk)

connectMatchPlan(ns, qp, ctx, av, mOk, tailKind, wOk) ==
  ConnectFragment(genPlan(ns, "kMatch", GenNames(ctx), mOk, tailKind), qp, ctx, av, wOk)

\* --------------------------------------------------------- genQueryPartPlan
\* queryPlan = addInput(wherePlan, queryPlan, true)
SplicedPlan(f, c, cols) == Outcome("ok", f.nodes, PlanOf(f), c.frag, c.whereCalls + 1, cols)

\* the WHERE plan w of a clause that is not optional goes over queryPlan
SpliceWhere(w, c, cols) ==
  IF w.status # "ok"
  THEN Outcome(w.status, w.nodes, PlanOf(c), c.frag, c.whereCalls + 1, cols)
  ELSE SplicedPlan(addInput(w.nodes, PlanOf(w), PlanOf(c), TRUE), c, cols)

\* the loop body with the filter planned on the columns of the clause's own fragment
ConnectFilterFragmentCols(c, ctx, wOk) ==
  IF c.status # "ok" THEN c
  ELSE IF ctx.where.present /\ ~ctx.isOptional
  THEN SpliceWhere(WhereClausePlanner(c.nodes, c.nodes[c.frag.root].colNames, wOk),
                   c, c.nodes[c.frag.root].colNames)
  ELSE c

\* the loop body after connectMatchPlan has answered c
ConnectFilter(c, ctx, wOk) ==
  IF c.status # "ok" THEN c
  ELSE IF ctx.where.present /\ ~ctx.isOptional
  THEN SpliceWhere(WhereClausePlanner(c.nodes, c.nodes[c.root].colNames, wOk),
                   c, c.nodes[c.root].colNames)
  ELSE c

\* one iteration of the loop over queryPart.matchs
FoldMatch(ns, qp, ctx, av, mOk, tailKind, wOk) ==
  ConnectFilter(connectMatchPlan(ns, qp, ctx, av, mOk, tailKind, wOk), ctx, wOk)

\* the anchoring of queryPlan.tail
Anchored(st, ns, qp, tc, anon, sets) ==
  [status |-> st, nodes |-> ns, root |-> qp.root, tail |-> qp.tail,
   tailConnected |-> tc, anon |-> anon, sets |-> sets]

\* Anchor without tailConnected_ = true
AnchorFlagNotSet(ns, qp, tc, anon) ==
  IF isSingleInput(ns[qp.tail].kind)
  THEN LET n1 == setInputVar(ns, qp.tail, -(anon + 1))
       IN IF ~tc
          THEN LET start == Len(n1) + 1
                   n2 == Append(n1, PlanNode("Start", <<>>, NULL, {}, {}))
               IN Anchored("ok", setDep(n2, qp.tail, 1, start),
                           [root |-> qp.root, tail |-> start], tc, anon + 1, 0)
          ELSE Anchored("ok", n1, qp, tc, anon + 1, 0)
  ELSE Anchored("ok", ns, qp, tc, anon, 0)

\* Anchor without the test of tailConnected_
AnchorEveryPart(ns, qp, tc, anon) ==
  IF isSingleInput(ns[qp.tail].kind)
  THEN LET n1 == setInputVar(ns, qp.tail, -(anon + 1))
           start == Len(n1) + 1
           n2 == Append(n1, PlanNode("Start", <<>>, NULL, {}, {}))
       IN Anchored("ok", setDep(n2, qp.tail, 1, start),
                   [root |-> qp.root, tail |-> start], TRUE, anon + 1, 1)
  ELSE Anchored("ok", ns, qp, tc, anon, 0)

\* Anchor without queryPlan.tail = start
AnchorTailKept(ns, qp, tc, anon) ==
  IF isSingleInput(ns[qp.tail].kind)
  THEN LET n1 == setInputVar(ns, qp.tail, -(anon + 1))
       IN IF ~tc
          THEN LET start == Len(n1) + 1
                   n2 == Append(n1, PlanNode("Start", <<>>, NULL, {}, {}))
               IN Anchored("ok", setDep(n2, qp.tail, 1, start), qp, TRUE, anon + 1, 1)
          ELSE Anchored("ok", n1, qp, tc, anon + 1, 0)
  ELSE Anchored("ok", ns, qp, tc, anon, 0)

Anchor(ns, qp, tc, anon) ==
  IF isSingleInput(ns[qp.tail].kind)
  THEN LET n1 == setInputVar(ns, qp.tail, -(anon + 1))
       IN IF ~tc
          THEN LET start == Len(n1) + 1
                   n2 == Append(n1, PlanNode("Start", <<>>, NULL, {}, {}))
               IN Anchored("ok", setDep(n2, qp.tail, 1, start),
                           [root |-> qp.root, tail |-> start], TRUE, anon + 1, 1)
          ELSE Anchored("ok", n1, qp, tc, anon + 1, 0)
  ELSE Anchored("ok", ns, qp, tc, anon, 0)

\* Anchor applied to the plan p
AnchorPlan(p, tc, anon) == Anchor(p.nodes, PlanOf(p), tc, anon)

\* the boundary step with the anchoring ahead of the error check
ConnectBoundaryAnchorsFirst(b, qp, tc, anon) ==
  IF b.status # "ok"
  THEN IF qp.root = NULL THEN Anchored(b.status, b.nodes, qp, tc, anon, 0)
       ELSE [Anchor(b.nodes, qp, tc, anon) EXCEPT !.status = b.status]
  ELSE IF qp.root = NULL THEN AnchorPlan(b, tc, anon)
  ELSE AnchorPlan(addInput(b.nodes, PlanOf(b), qp, FALSE), tc, anon)

\* the boundary step returning a bare boundary fragment as it is
ConnectBoundaryBareUnanchored(b, qp, tc, anon) ==
  IF b.status # "ok" THEN Anchored(b.status, b.nodes, qp, tc, anon, 0)
  ELSE IF qp.root = NULL THEN Anchored("ok", b.nodes, PlanOf(b), tc, anon, 0)
  ELSE AnchorPlan(addInput(b.nodes, PlanOf(b), qp, FALSE), tc, anon)

\* genQueryPartPlan once genPlan has answered b for the boundary clause
ConnectBoundary(b, qp, tc, anon) ==
  IF b.status # "ok" THEN Anchored(b.status, b.nodes, qp, tc, anon, 0)
  ELSE IF qp.root = NULL THEN AnchorPlan(b, tc, anon)
  ELSE AnchorPlan(addInput(b.nodes, PlanOf(b), qp, FALSE), tc, anon)

\* inputColNames of the boundary clause never written
BoundaryInputColNamesUnset(ns, qp) == {}

\* boundary->inputColNames when the boundary planner runs
BoundaryInputColNames(ns, qp) == IF qp.root # NULL THEN ns[qp.root].colNames ELSE {}

\* the boundary clause and the anchoring that follows it
FoldBoundary(ns, qp, tc, anon, kind, bOk) ==
  ConnectBoundary(genPlan(ns, kind, BoundaryInputColNames(ns, qp), bOk, ""), qp, tc, anon)

\* ------------------------------------------------------------------ state
VARIABLES
  nodes,          \* the plan nodes made so far (the arena of qctx)
  queryPlan,      \* transform's accumulator: [root, tail]
  tailConnected,  \* MatchPlanner::tailConnected_
  anonVars,       \* names handed out by anonVarGen
  avail,          \* aliasesAvailable for the next matching clause
  pc,             \* where transform stands
  parts,          \* query parts entered
  result,         \* what transform returned
  tailSets,       \* how often tailConnected_ = true was executed
  last            \* the step just taken and what it was given

vars == <<nodes, queryPlan, tailConnected, anonVars, avail, pc, parts, result, tailSets, last>>

NoCtx == [aliasesGenerated |-> <<>>, isOptional |-> FALSE, where |-> NoWhere]

Step(op, ctx, st, frag, wc, wcols) ==
  [op |-> op, ctx |-> ctx, status |-> st, avail |-> avail, before |-> queryPlan,
   tc |-> tailConnected, made |-> Len(nodes), frag |-> frag,
   whereCalls |-> wc, whereCols |-> wcols]

NoResult == [status |-> "none", root |-> NULL, tail |-> NULL]

Init ==
  /\ nodes = <<>>
  /\ queryPlan = EmptyPlan
  /\ tailConnected = FALSE
  /\ anonVars = 0
  /\ avail = EmptyAliases
  /\ pc = "entry"
  /\ parts = 0
  /\ result = NoResult
  /\ tailSets = 0
  /\ last = [op |-> "init", ctx |-> NoCtx, status |-> "ok", avail |-> EmptyAliases,
             before |-> EmptyPlan, tc |-> FALSE, made |-> 0, frag |-> EmptyPlan,
             whereCalls |-> 0, whereCols |-> {}]

\* nodes a query part still needs after its matching clauses
Reserve == 2 + (IF tailConnected THEN 0 ELSE 1)

\* transform clearing tailConnected_ on entry
TransformEntryClearsFlag(kind) ==
  /\ pc = "entry"
  /\ IF kind # "kMatch"
     THEN /\ pc' = "done"
          /\ result' = [status |-> "unsupported-statement", root |-> NULL, tail |-> NULL]
          /\ last' = Step("entry", NoCtx, "unsupported-statement", EmptyPlan, 0, {})
     ELSE /\ pc' = "parts"
          /\ result' = result
          /\ last' = Step("entry", NoCtx, "ok", EmptyPlan, 0, {})
  /\ queryPlan' = EmptyPlan
  /\ tailConnected' = FALSE
  /\ UNCHANGED <<nodes, anonVars, avail, parts, tailSets>>

\* transform, up to its loop
TransformEntry(kind) ==
  /\ pc = "entry"
  /\ IF kind # "kMatch"
     THEN /\ pc' = "done"
          /\ result' = [status |-> "unsupported-statement", root |-> NULL, tail |-> NULL]
          /\ last' = Step("entry", NoCtx, "unsupported-statement", EmptyPlan, 0, {})
     ELSE /\ pc' = "parts"
          /\ result' = result
          /\ last' = Step("entry", NoCtx, "ok", EmptyPlan, 0, {})
  /\ queryPlan' = EmptyPlan
  /\ UNCHANGED <<nodes, tailConnected, anonVars, avail, parts, tailSets>>

\* the loop of transform takes the next query part
BeginPart ==
  /\ pc = "parts"
  /\ parts < MaxParts
  /\ Len(nodes) + Reserve <= MaxNodes
  /\ pc' = "matchs"
  /\ parts' = parts + 1
  /\ last' = Step("begin", NoCtx, "ok", EmptyPlan, 0, {})
  /\ UNCHANGED <<nodes, queryPlan, tailConnected, anonVars, avail, result, tailSets>>

\* the loop over queryPart.matchs has a clause left and the arena has room for it
CanFold == pc = "matchs" /\ Len(nodes) + 4 + Reserve <= MaxNodes

\* one iteration of the loop over queryPart.matchs, on the clause ctx
MatchClause(ctx, mOk, tailKind, wOk) ==
  /\ tailKind = "Argument" => mOk /\ queryPlan.root # NULL
  /\ ~wOk => ctx.where.present
  /\ ctx.where.refs \subseteq GenNames(ctx) \cup { n \in Names : avail[n] # NoAlias }
  /\ LET r == FoldMatch(nodes, queryPlan, ctx, avail, mOk, tailKind, wOk)
     IN /\ nodes' = r.nodes
        /\ queryPlan' = PlanOf(r)
        /\ last' = Step("match", ctx, r.status, r.frag, r.whereCalls, r.whereCols)
        /\ IF r.status = "ok"
           THEN /\ avail' = MergeAliases(avail, ctx.aliasesGenerated)
                /\ UNCHANGED <<pc, result>>
           ELSE /\ pc' = "done"
                /\ result' = [status |-> r.status, root |-> NULL, tail |-> NULL]
                /\ UNCHANGED avail
  /\ UNCHANGED <<tailConnected, anonVars, parts, tailSets>>

\* the loop over queryPart.matchs takes its next clause, whatever it is
MatchIter ==
  /\ CanFold
  /\ \E ctx \in MatchCtxs, mOk \in BOOLEAN, tailKind \in MatchTailKinds, wOk \in BOOLEAN :
       MatchClause(ctx, mOk, tailKind, wOk)

\* the rest of genQueryPartPlan: the boundary clause and the anchoring
Boundary(kind, bOk) ==
  /\ pc = "matchs"
  /\ LET r == FoldBoundary(nodes, queryPlan, tailConnected, anonVars, kind, bOk)
     IN /\ nodes' = r.nodes
        /\ queryPlan' = PlanOf(r)
        /\ tailConnected' = r.tailConnected
        /\ anonVars' = r.anon
        /\ tailSets' = tailSets + r.sets
        /\ last' = Step("boundary", NoCtx, r.status, EmptyPlan, 0, {})
        /\ IF r.status = "ok"
           THEN /\ pc' = "parts"
                /\ UNCHANGED result
           ELSE /\ pc' = "done"
                /\ result' = [status |-> r.status, root |-> NULL, tail |-> NULL]
  /\ UNCHANGED <<avail, parts>>

\* transform returns queryPlan after the last query part
Return ==
  /\ pc = "parts"
  /\ parts >= 1
  /\ pc' = "done"
  /\ result' = [status |-> "ok", root |-> queryPlan.root, tail |-> queryPlan.tail]
  /\ last' = Step("return", NoCtx, "ok", EmptyPlan, 0, {})
  /\ UNCHANGED <<nodes, queryPlan, tailConnected, anonVars, avail, parts, tailSets>>

Next ==
  \/ \E kind \in {"kMatch", "kGo"} : TransformEntry(kind)
  \/ BeginPart
  \/ MatchIter
  \/ \E kind \in BoundaryKinds, bOk \in BOOLEAN : Boundary(kind, bOk)
  \/ Return

Spec == Init /\ [][Next]_vars

\* nodes that earlier statements may have left behind when transform is invoked again
MaxReused == 2

\* the caller hands another statement to the same MatchPlanner: transform's
\* locals are gone, the member tailConnected_ and the nodes made so far stay
Reinvoke ==
  /\ pc = "done"
  /\ Len(nodes) <= MaxReused
  /\ pc' = "entry"
  /\ parts' = 0
  /\ avail' = EmptyAliases
  /\ result' = NoResult
  /\ last' = Step("reinvoke", NoCtx, "ok", EmptyPlan, 0, {})
  /\ UNCHANGED <<nodes, queryPlan, tailConnected, anonVars, tailSets>>

NextReuse == Next \/ Reinvoke

\* one MatchPlanner used for several statements
SpecReuse == Init /\ [][NextReuse]_vars

\* ------------------------------------------------------ plan vocabulary
JoinKinds == {"BiInnerJoin", "BiLeftJoin"}
BiKinds == JoinKinds \cup {"BiCartesianProduct"}

Deps(ns, n) == { ns[n].deps[i] : i \in 1..Len(ns[n].deps) } \ {NULL}

RECURSIVE Closure(_, _)
Closure(ns, S) ==
  LET T == S \cup UNION { Deps(ns, n) : n \in S }
  IN IF T = S THEN S ELSE Closure(ns, T)

\* the nodes of the plan whose root is r
PlanNodes(ns, r) == IF r = NULL THEN {} ELSE Closure(ns, {r})

Starts(ns) == { n \in 1..Len(ns) : ns[n].kind = "Start" }

\* the nodes of the plan that depend on nothing
TerminalSources(ns, r) == { n \in PlanNodes(ns, r) : Deps(ns, n) = {} }

\* tails of fragments that entered the plan as the right input of a join or product
JoinedTails(ns, r) ==
  { t \in PlanNodes(ns, r) :
      /\ ns[t].kind \in MatchTailKinds
      /\ \E j \in PlanNodes(ns, r) :
           ns[j].kind \in BiKinds /\ t \in PlanNodes(ns, ns[j].deps[2]) }

\* matching clauses whose fragment was planned
MatchCount == Cardinality({ n \in 1..Len(nodes) : nodes[n].kind \in MatchTailKinds })

Succeeded == pc = "done" /\ result.status = "ok"

\* ------------------------------------------------------------------ claims

\* C1: when transform succeeds on K >= 1 query parts with N >= 0 matching
\* clauses, the final plan contains exactly one Start node, and it is the only
\* Start node that was made.
OneStartNode ==
  Succeeded =>
    /\ Cardinality(Starts(nodes) \cap PlanNodes(nodes, result.root)) = 1
    /\ Cardinality(Starts(nodes)) = 1

OneStartNodeWitness ==
  /\ Succeeded
  /\ parts = 2
  /\ MatchCount = 2
  /\ Cardinality(Starts(nodes) \cap PlanNodes(nodes, result.root)) = 1

\* C2 as stated: when transform succeeds the final plan has exactly one node
\* without a dependency, however many fragments were merged, and no query part
\* after the one that inserted the Start node inserts another.
OneTerminalSource ==
  /\ Cardinality(Starts(nodes)) <= 1
  /\ Succeeded => Cardinality(TerminalSources(nodes, result.root)) = 1

\* C2 amended: at most one Start node is ever made, so no later query part
\* inserts a second one; when transform succeeds the final plan holds exactly
\* one Start node, and every other node without a dependency is the tail of a
\* fragment merged as the right input of an innerJoin, leftJoin or cartesian
\* product, which the anchoring never reaches.
TerminalSourcesAreStartOrJoinedTails ==
  /\ Cardinality(Starts(nodes)) <= 1
  /\ tailSets <= 1
  /\ Succeeded =>
       /\ Cardinality(Starts(nodes) \cap TerminalSources(nodes, result.root)) = 1
       /\ TerminalSources(nodes, result.root) \subseteq
            Starts(nodes) \cup JoinedTails(nodes, result.root)

TerminalSourcesWitness ==
  /\ Succeeded
  /\ parts = 2
  /\ Cardinality(TerminalSources(nodes, result.root)) = 2
  /\ JoinedTails(nodes, result.root) # {}

\* ---- the matching clause folded by the last step
MatchStep == last.op = "match"

\* its fragment was planned and met a non-empty accumulator
Joined == MatchStep /\ last.frag # EmptyPlan /\ last.before.root # NULL

Gen == last.ctx.aliasesGenerated

\* positions of the generated aliases that aliasesAvailable holds too
SharedIdx == { i \in 1..Len(Gen) : last.avail[Gen[i].name] # NoAlias }

SharedNames == { Gen[i].name : i \in SharedIdx }

Conflicting(i) == i \in SharedIdx /\ last.avail[Gen[i].name] # Gen[i].type

EdgeListShared(i) ==
  i \in SharedIdx /\ Gen[i].type = "kEdgeList" /\ last.avail[Gen[i].name] = "kEdgeList"

Offenders == { i \in 1..Len(Gen) : Conflicting(i) \/ EdgeListShared(i) }

\* the error of the first offending alias in iteration order
FirstOffence ==
  LET f == CHOOSE i \in Offenders : \A j \in Offenders : i <= j
  IN IF Conflicting(f) THEN "binding-type-conflict" ELSE "invalid-join-key"

\* the nodes the last step made, and the joins and products among them
StepNodes == (last.made + 1)..Len(nodes)
StepJoins == { n \in StepNodes : nodes[n].kind \in BiKinds }

ReturnedError(st) ==
  /\ pc = "done"
  /\ result = [status |-> st, root |-> NULL, tail |-> NULL]

\* C3 as stated: two fragments that share x, a Node on both sides, are combined
\* by an innerJoin of accumulator and fragment keyed on exactly the shared
\* names, or by a leftJoin when the clause is optional (no sub-planner failing).
SharedNodeAliasJoins ==
  ( /\ Joined /\ last.status # "subplanner-error"
    /\ \E i \in SharedIdx : Gen[i].type = "kNode" /\ last.avail[Gen[i].name] = "kNode" )
  => \E j \in StepNodes :
       /\ nodes[j].kind = IF last.ctx.isOptional THEN "BiLeftJoin" ELSE "BiInnerJoin"
       /\ nodes[j].deps[1] = last.before.root
       /\ nodes[j].keys = SharedNames
       /\ ~last.ctx.isOptional => nodes[j].deps[2] = last.frag.root

\* C3 amended: when the fragment of the new clause meets a non-empty
\* accumulator, shares at least one alias with it and every shared alias has the
\* same kind, not EdgeList, on both sides, then a clause that is not optional
\* yields exactly one innerJoin of (accumulator root, fragment root) keyed on
\* exactly the shared names; an optional clause yields exactly one leftJoin with
\* the accumulator as its left input, the fragment (under its filter, if it has
\* a WHERE) as its right input and the shared names as keys, unless its WHERE
\* fails the scope check or the WHERE planner fails, in which case no join is
\* made.  Only the new clause's isOptional decides between the two.
CompatibleSharedAliasesJoin ==
  (Joined /\ SharedIdx # {} /\ Offenders = {})
  => IF ~last.ctx.isOptional
     THEN \E j \in StepNodes :
            /\ StepJoins = {j}
            /\ nodes[j].kind = "BiInnerJoin"
            /\ nodes[j].deps = <<last.before.root, last.frag.root>>
            /\ nodes[j].keys = SharedNames
     ELSE IF last.status = "ok"
     THEN \E j \in StepNodes :
            /\ StepJoins = {j}
            /\ queryPlan.root = j
            /\ nodes[j].kind = "BiLeftJoin"
            /\ nodes[j].deps[1] = last.before.root
            /\ nodes[j].keys = SharedNames
            /\ LET r == nodes[j].deps[2]
               IN IF last.ctx.where.present
                  THEN nodes[r].kind = "Filter" /\ nodes[r].deps = <<last.frag.root>>
                  ELSE r = last.frag.root
     ELSE /\ StepJoins = {}
          /\ last.ctx.where.present
          /\ last.status \in {"unsupported-optional-filter-scope", "subplanner-error"}

CompatibleSharedAliasesJoinWitness ==
  /\ Joined /\ Offenders = {} /\ last.status = "ok"
  /\ \E i \in SharedIdx : Gen[i].type = "kNode"
  /\ last.ctx.isOptional /\ last.ctx.where.present
  /\ \E j \in StepJoins : nodes[j].kind = "BiLeftJoin"

\* C4: a clause folded into a non-empty accumulator that generates no alias of
\* aliasesAvailable makes the accumulator root a cartesian product of (old
\* accumulator root, fragment root); no innerJoin or leftJoin is made for it.
DisjointAliasesGiveCartesianProduct ==
  (Joined /\ SharedIdx = {})
  => \E j \in StepNodes :
       /\ StepJoins = {j}
       /\ nodes[j].kind = "BiCartesianProduct"
       /\ nodes[j].deps = <<last.before.root, last.frag.root>>
       /\ \/ queryPlan.root = j
          \/ /\ last.ctx.where.present /\ ~last.ctx.isOptional
             /\ nodes[queryPlan.root].kind = "Filter"
             /\ nodes[queryPlan.root].deps = <<j>>
       /\ queryPlan.tail = last.before.tail

DisjointAliasesWitness ==
  /\ Joined /\ SharedIdx = {} /\ Len(Gen) = 2 /\ last.status = "ok"
  /\ nodes[queryPlan.root].kind = "BiCartesianProduct"

\* C5 as stated: two fragments that share an alias whose kind differs between
\* aliasesAvailable and aliasesGenerated fail with binding-type-conflict and
\* transform returns no plan.
KindConflictIsBindingTypeConflict ==
  (Joined /\ \E i \in SharedIdx : Conflicting(i))
  => /\ last.status = "binding-type-conflict"
     /\ ReturnedError("binding-type-conflict")

\* C5 amended: two fragments that share an alias whose kind differs between
\* aliasesAvailable and aliasesGenerated are never joined and transform returns
\* an error instead of a plan; the error is binding-type-conflict unless an
\* alias that comes earlier in the iteration over aliasesGenerated is shared
\* with kind EdgeList on both sides, and then it is invalid-join-key.
KindConflictFails ==
  (Joined /\ \E i \in SharedIdx : Conflicting(i))
  => /\ last.status = FirstOffence
     /\ ReturnedError(FirstOffence)
     /\ StepJoins = {}
     /\ queryPlan = last.before

KindConflictWitness ==
  /\ Joined
  /\ \E i \in SharedIdx : Conflicting(i) /\ Gen[i].type = "kNode" /\ last.avail[Gen[i].name] = "kEdge"
  /\ ReturnedError("binding-type-conflict")

\* C6 as stated: two fragments that share an alias bound to EdgeList on both
\* sides fail with invalid-join-key; no join, product or plan is made.
SharedEdgeListIsInvalidJoinKey ==
  (Joined /\ \E i \in SharedIdx : EdgeListShared(i))
  => /\ last.status = "invalid-join-key"
     /\ ReturnedError("invalid-join-key")
     /\ StepJoins = {}

\* C6 amended: two fragments that share an alias bound to EdgeList on both
\* sides are never joined and transform returns an error instead of a plan; the
\* error is invalid-join-key unless an alias that comes earlier in the iteration
\* over aliasesGenerated is shared with differing kinds, and then it is
\* binding-type-conflict.
SharedEdgeListFails ==
  (Joined /\ \E i \in SharedIdx : EdgeListShared(i))
  => /\ last.status = FirstOffence
     /\ ReturnedError(FirstOffence)
     /\ StepJoins = {}
     /\ queryPlan = last.before

SharedEdgeListWitness ==
  /\ Joined
  /\ \E i \in SharedIdx : EdgeListShared(i)
  /\ ReturnedError("invalid-join-key")
  /\ StepJoins = {}

\* C7: an optional clause whose WHERE filter mentions an alias bound by an
\* earlier clause and not generated by this one fails with
\* unsupported-optional-filter-scope (its fragment planned, no shared alias
\* rejected).
OptionalFilterScopeRejected ==
  ( /\ MatchStep /\ last.frag # EmptyPlan /\ Offenders = {}
    /\ last.ctx.isOptional /\ last.ctx.where.present
    /\ \E r \in last.ctx.where.refs : r \notin SharedNames /\ last.avail[r] # NoAlias
                                      /\ \A i \in 1..Len(Gen) : Gen[i].name # r )
  => last.status = "unsupported-optional-filter-scope"

\* C8: a query of one matching clause and its boundary clause, once assembled,
\* has a Start node without dependencies as the tail of its plan, and
\* tailConnected was set exactly once.
SingleMatchPlanIsAnchored ==
  (Succeeded /\ parts = 1 /\ MatchCount = 1)
  => /\ result.tail # NULL
     /\ nodes[result.tail].kind = "Start"
     /\ nodes[result.tail].deps = <<>>
     /\ tailConnected
     /\ tailSets = 1

SingleMatchWitness ==
  /\ Succeeded /\ parts = 1 /\ MatchCount = 1
  /\ nodes[result.tail].kind = "Start"
  /\ \E n \in 1..Len(nodes) : nodes[n].kind = "Filter"

\* C9: assembly is fail-fast: a step in which a sub-planner or a check fails
\* ends transform with that error and no plan, inserts no Start node and leaves
\* tailConnected alone; a match planner failure plans nothing else, a rejected
\* alias or filter leaves the fragment unjoined; once transform has returned,
\* nothing more is planned.
FailFastStep ==
  /\ pc # "done"
  /\ last'.status # "ok" =>
       /\ pc' = "done"
       /\ result' = [status |-> last'.status, root |-> NULL, tail |-> NULL]
       /\ Starts(nodes') = Starts(nodes)
       /\ tailConnected' = tailConnected
       /\ (last'.op = "match" /\ last'.frag = EmptyPlan) =>
            nodes' = nodes /\ last'.whereCalls = 0
       /\ (last'.op = "match" /\ last'.status # "subplanner-error") =>
            Len(nodes') = Len(nodes) + 2 /\ last'.whereCalls = 0
       /\ last'.op = "boundary" => nodes' = nodes

FailFast == [][FailFastStep]_vars

FailFastWitness ==
  /\ pc = "done" /\ result.status = "subplanner-error"
  /\ last.op = "boundary" /\ parts = 2 /\ MatchCount = 2

\* ---- filters of the clause folded by the last step
StepFilters == { n \in StepNodes : nodes[n].kind = "Filter" }

\* C11: a matching clause that carries a WHERE and is folded successfully has
\* the WHERE planner invoked for it exactly once and its filter in the
\* resulting plan, whatever its position and whether or not it shares an alias
\* with the accumulator.
WhereAppliedOnce ==
  (MatchStep /\ last.status = "ok" /\ last.ctx.where.present)
  => /\ last.whereCalls = 1
     /\ Cardinality(StepFilters) = 1
     /\ StepFilters \subseteq PlanNodes(nodes, queryPlan.root)

\* an optional clause with a WHERE whose fragment met a non-empty accumulator
\* and shares an alias with it
OptionalFiltered ==
  Joined /\ last.ctx.isOptional /\ last.ctx.where.present /\ SharedIdx # {}

\* C12: for an optional clause with a WHERE that shares an alias with the
\* accumulator, the filter is validated (a reference to an alias the clause
\* does not generate is rejected before anything is planned), planned with the
\* columns of the match fragment's root as its input schema and put over the
\* match fragment before the leftJoin is built: the right input of the leftJoin
\* is the filter, the filter's input is the fragment root, and no filter of the
\* clause sits over a join.
OptionalFilterBelowLeftJoin ==
  OptionalFiltered
  => /\ \A f \in StepFilters : nodes[f].deps[1] \notin StepJoins
     /\ \A j \in StepJoins : nodes[j].kind = "BiLeftJoin" /\ nodes[j].deps[2] \in StepFilters
     /\ Offenders = {} =>
          IF ~(last.ctx.where.refs \subseteq { Gen[i].name : i \in 1..Len(Gen) })
          THEN /\ last.status = "unsupported-optional-filter-scope"
               /\ last.whereCalls = 0
               /\ StepFilters = {} /\ StepJoins = {}
          ELSE /\ last.whereCalls = 1
               /\ last.whereCols = nodes[last.frag.root].colNames
               /\ last.status # "ok" =>
                    last.status = "subplanner-error" /\ StepJoins = {}
               /\ last.status = "ok" =>
                    \E f \in StepNodes, j \in StepNodes :
                      /\ StepFilters = {f} /\ StepJoins = {j}
                      /\ f < j
                      /\ nodes[f].deps = <<last.frag.root>>
                      /\ nodes[f].colNames = nodes[last.frag.root].colNames
                      /\ nodes[j].kind = "BiLeftJoin"
                      /\ nodes[j].deps = <<last.before.root, f>>
                      /\ nodes[j].keys = SharedNames
                      /\ queryPlan.root = j

OptionalFilterBelowLeftJoinWitness ==
  /\ OptionalFiltered /\ last.status = "ok"
  /\ Len(Gen) = 2 /\ Cardinality(SharedIdx) = 1
  /\ \E j \in StepJoins : nodes[j].kind = "BiLeftJoin" /\ nodes[j].deps[2] \in StepFilters

\* connectMatchPlan answered OK for a clause that is not optional
ConnectedPlain ==
  /\ MatchStep /\ last.frag # EmptyPlan /\ ~last.ctx.isOptional
  /\ last.before.root = NULL \/ Offenders = {}

\* the root of the accumulator right after that fold
FoldRoot ==
  IF last.before.root = NULL THEN last.frag.root ELSE CHOOSE j \in StepJoins : TRUE

\* C13: for a clause that is not optional and carries a WHERE, the filter is
\* planned and put over the accumulator in the same loop iteration, after the
\* clause is folded and before any node of a later clause is made; its
\* inputColNames are the columns of the accumulator root as the fold left it
\* (the fragment root for a first clause, the join or product otherwise).
WhereSplicedAfterFold ==
  (ConnectedPlain /\ last.ctx.where.present)
  => /\ last.whereCalls = 1
     /\ last.before.root # NULL => Cardinality(StepJoins) = 1
     /\ last.whereCols = nodes[FoldRoot].colNames
     /\ last.status # "ok" =>
          /\ last.status = "subplanner-error"
          /\ StepFilters = {}
          /\ queryPlan.root = FoldRoot
     /\ last.status = "ok" =>
          /\ StepFilters = {Len(nodes)}
          /\ queryPlan.root = Len(nodes)
          /\ nodes[queryPlan.root].deps = <<FoldRoot>>
          /\ nodes[queryPlan.root].colNames = nodes[FoldRoot].colNames
          /\ FoldRoot < queryPlan.root
          /\ queryPlan.tail = IF last.before.root = NULL THEN last.frag.tail
                              ELSE last.before.tail

WhereSplicedAfterFoldWitness ==
  /\ ConnectedPlain /\ last.ctx.where.present /\ last.status = "ok"
  /\ last.before.root # NULL
  /\ nodes[FoldRoot].kind = "BiInnerJoin"
  /\ nodes[FoldRoot].colNames # nodes[last.frag.root].colNames
  /\ nodes[queryPlan.root].kind = "Filter"

\* ---- the boundary clause planned by the last step
BoundaryStep == last.op = "boundary"

\* the nodes of its fragment
BoundaryNodes == { n \in StepNodes : nodes[n].kind # "Start" }

\* boundary fragments planned so far (each ends in one Unwind or Project)
BoundaryCount ==
  Cardinality({ n \in 1..Len(nodes) : nodes[n].kind \in {"Unwind", "Project"} })

BareBoundaryIsAnchored ==
  (BoundaryStep /\ last.status = "ok" /\ parts = 1 /\ last.before.root = NULL)
  => LET t == last.made + 1
         start == queryPlan.tail
     IN /\ ~last.tc /\ tailConnected
        /\ start \in StepNodes /\ Starts(nodes) = {start}
        /\ nodes[start].deps = <<>>
        /\ nodes[t].deps = <<start>>
        /\ queryPlan.root \in BoundaryNodes
        /\ start \in PlanNodes(nodes, queryPlan.root)

BareBoundaryWitness ==
  /\ BoundaryStep /\ last.status = "ok" /\ parts = 1 /\ last.before.root = NULL
  /\ nodes[queryPlan.root].kind = "Limit"
  /\ nodes[queryPlan.tail].kind = "Start"
  /\ tailConnected

\* C16: connectMatchPlan sets the input variable of the match fragment's tail
\* if and only if the accumulator is not empty, the loop over aliasesGenerated
\* ends with a non-empty set of shared aliases and the tail is an Argument
\* node; the value is the output variable of the accumulator root as it was
\* before the join.  Otherwise the tail keeps the input variable its planner
\* gave it.
ArgumentRebound ==
  (MatchStep /\ last.frag # EmptyPlan)
  => LET t == last.frag.tail
     IN nodes[t].inputVar =
          IF /\ last.before.root # NULL
             /\ SharedIdx # {} /\ Offenders = {}
             /\ nodes[t].kind = "Argument"
          THEN outputVar(last.before.root)
          ELSE NULL

ArgumentReboundWitness ==
  /\ Joined /\ SharedIdx # {} /\ Offenders = {}
  /\ nodes[last.frag.tail].kind = "Argument"
  /\ nodes[last.frag.tail].inputVar = outputVar(last.before.root)
  /\ last.ctx.isOptional /\ last.status = "unsupported-optional-filter-scope"

\* C17: in every state of one MatchPlanner, tailConnected is true exactly when
\* the planner has made a Start node; tailConnected never goes back from true
\* to false, not between query parts, not after a failure and not between two
\* invocations of transform; so one MatchPlanner makes at most one Start node.
TailConnectedTracksStart ==
  /\ [](tailConnected <=> Starts(nodes) # {})
  /\ [](Cardinality(Starts(nodes)) <= 1)
  /\ [][tailConnected => tailConnected']_vars
  /\ [][Starts(nodes) \subseteq Starts(nodes')]_vars

\* a second invocation has succeeded on a planner whose flag was already set
TailConnectedWitness ==
  /\ Succeeded /\ tailConnected
  /\ Cardinality(Starts(nodes)) = 1
  /\ Starts(nodes) \cap PlanNodes(nodes, result.root) = {}

\* the tail of the accumulator is connected to its root along dependency edges
TailReachesRoot ==
  (last.op \in {"match", "boundary"} /\ last.status = "ok")
  => queryPlan.tail \in PlanNodes(nodes, queryPlan.root)

\* C18: after every successful fold step and after the anchoring the
\* accumulator is a well-formed fragment, its tail connected to its root along
\* dependency edges, and the anchoring attaches the Start node without
\* replacing a dependency that links an already folded fragment into the plan:
\* the accumulator the boundary fragment was put over is still part of the plan.
AnchoringKeepsAccumulator ==
  /\ TailReachesRoot
  /\ (BoundaryStep /\ last.status = "ok" /\ last.before.root # NULL)
     => last.before.root \in PlanNodes(nodes, queryPlan.root)

\* C19: every key of every innerJoin or leftJoin that connectMatchPlan makes
\* is an alias of both aliasesGenerated and aliasesAvailable of the clause, of
\* the same kind on both sides and never EdgeList; no join has an empty key set.
JoinKeysAreShared ==
  /\ \A n \in 1..Len(nodes) : nodes[n].kind \in JoinKinds => nodes[n].keys # {}
  /\ \A j \in StepJoins :
       nodes[j].kind \in JoinKinds =>
         /\ MatchStep
         /\ \A k \in nodes[j].keys :
              \E i \in 1..Len(Gen) :
                /\ Gen[i].name = k
                /\ last.avail[k] = Gen[i].type
                /\ Gen[i].type # "kEdgeList"

JoinKeysWitness ==
  /\ MatchStep /\ last.status = "ok"
  /\ \E j \in StepJoins : nodes[j].kind = "BiInnerJoin" /\ Cardinality(nodes[j].keys) = 2
  /\ \E i \in SharedIdx : Gen[i].type = "kEdge"

\* the step ends in an error that connectMatchPlan returned (not the WHERE
\* planner of genQueryPartPlan, which runs only for a clause that is not
\* optional)
ConnectFailed ==
  /\ last'.op = "match" /\ last'.status # "ok"
  /\ ~(~last'.ctx.isOptional /\ last'.whereCalls = 1)

ConnectErrorStep ==
  ConnectFailed
  => /\ queryPlan' = queryPlan
     /\ tailConnected' = tailConnected
     /\ \A n \in PlanNodes(nodes, queryPlan.root) : nodes'[n] = nodes[n]

\* C20: whenever connectMatchPlan returns an error (match planner failure,
\* binding-type-conflict, invalid-join-key, unsupported-optional-filter-scope,
\* WHERE planner failure), the accumulator it was given, root and tail and the
\* nodes under it, and tailConnected are as they were before the call.
ConnectErrorLeavesAccumulator == [][ConnectErrorStep]_vars

ConnectErrorWitness ==
  /\ MatchStep /\ last.status = "subplanner-error"
  /\ last.ctx.isOptional /\ last.whereCalls = 1
  /\ last.before.root # NULL /\ queryPlan = last.before
  /\ tailConnected

====
